---- MODULE Spec2Model ----
(***************************************************************************)
(* Model of the to-do list server (src/index.js).                          *)
(*                                                                         *)
(* src/index.js holds two variants of the server: the variant without      *)
(* users (lines 1-235, "base") and the variant with passport sessions      *)
(* (lines 236-794, "auth"); src/unnamed holds two older servers ("part0",  *)
(* "part1").  The persistent store (the Task and User collections) is the  *)
(* only shared state.  A handler is one atomic step taken at the time of   *)
(* its store call; a store call that is issued without being awaited       *)
(* (pruneList's deleteMany, every write of part1) is kept in flight in     *)
(* `pending` and applied by a later step, and the callback of a Google     *)
(* login, which makes two store calls, takes one step for each.            *)
(* Strings that the code transforms or compares character by character     *)
(* (list names, task texts) are sequences of one-character strings.        *)
(*                                                                         *)
(* Spec runs both variants over every list name; SpecDefault and SpecWork  *)
(* are Spec with the spellings of one list; SpecTexts runs the variant     *)
(* with users over every item text; SpecFaulty runs both variants with a   *)
(* store whose calls may fail; SpecUsers runs the routes that register and *)
(* log in users (src/index.js lines 319-412 and 472-595); SpecOld runs the *)
(* two older servers of src/unnamed.                                       *)
(***************************************************************************)
EXTENDS Naturals, Sequences, FiniteSets, Bags, TLC

VARIABLES
  variant,   \* which server is running: "base", "auth", "part0" or "part1"
  tasks,     \* the Task collection: [id -> document], DOMAIN = stored ids
  nextId,    \* number of ObjectIds generated so far
  pending,   \* bag of the store calls issued without await, not yet executed
  users,     \* the User collection: the sequence of the documents saved
  verifying, \* bag of GoogleStrategy callbacks between findOne and save
  step,      \* the step just taken, with the inputs of its request and what it did
  res,       \* the response sent by that step
  sent       \* number of responses the handler of that step tried to send

vars == <<variant, tasks, nextId, pending, users, verifying, step, res, sent>>

----------------------------------------------------------------------------
(* Bounds *)

\* Number of task documents ever created under Spec, SpecDefault, SpecWork.
MaxTasks == 2

\* Number of task documents ever created under SpecTexts.
MaxTextTasks == 3

\* Number of un-awaited deleteMany calls in flight at once.
MaxPending == 1

\* Number of user documents created, or about to be created, under SpecUsers.
MaxUsers == 2

----------------------------------------------------------------------------
(* Characters and strings *)

\* The letters used by the model, in ASCII order; Capitals[i] is the upper
\* case of Letters[i] and every capital precedes every small letter.
Letters  == <<"a", "b", "e", "k", "l", "n", "o", "p", "r", "s", "w">>
Capitals == <<"A", "B", "E", "K", "L", "N", "O", "P", "R", "S", "W">>

Chars == {Letters[i] : i \in DOMAIN Letters} \cup {Capitals[i] : i \in DOMAIN Capitals}

IndexIn(c, table) == CHOOSE i \in DOMAIN table : table[i] = c
IsIn(c, table)    == \E i \in DOMAIN table : table[i] = c

\* String.prototype.toLowerCase / toUpperCase on one character.
LowerChar ==
  [c \in Chars |-> IF IsIn(c, Capitals) THEN Letters[IndexIn(c, Capitals)] ELSE c]
UpperChar ==
  [c \in Chars |-> IF IsIn(c, Letters) THEN Capitals[IndexIn(c, Letters)] ELSE c]

\* Code unit order of the characters (capitals first, as in ASCII).
CharCode ==
  [c \in Chars |-> IF IsIn(c, Capitals) THEN IndexIn(c, Capitals)
                   ELSE Len(Capitals) + IndexIn(c, Letters)]

ToLowerCase(s) == [i \in DOMAIN s |-> LowerChar[s[i]]]
UpperFirst(s)  == [i \in DOMAIN s |-> IF i = 1 THEN UpperChar[s[i]] ELSE s[i]]

\* lodash _.capitalize: upperFirst(toString(string).toLowerCase()).
Capitalize(s) == UpperFirst(ToLowerCase(s))

DEFAULT_LIST == <<"P", "e", "r", "s", "o", "n", "a", "l">>

----------------------------------------------------------------------------
(* Inputs *)

NoUser == "none"
Users  == {"u1", "u2"}

\* Who sends a request: a logged-in user, or nobody (no session).
Requesters == Users \cup {NoUser}

Work == <<"W", "o", "r", "k">>

\* req.params.listName as typed in the URL: two spellings of the default
\* list and two of another list.
DefaultNames == {DEFAULT_LIST, <<"p", "E", "R", "S", "O", "N", "A", "L">>}
WorkNames    == {Work, <<"w", "O", "r", "K">>}
RawNames     == DefaultNames \cup WorkNames

\* req.body.newItem.
Texts == { <<>>, <<"a">>, <<"B">> }

\* req.body.done; "none" stands for an absent field (unchecked checkbox).
DoneValues == {"on", "off", "none"}

\* req.params._id: the ObjectIds are the positive numbers (stored or not);
\* 0 stands for a string that is no ObjectId.
WellFormedId(id) == id > 0
ReqIds(cap) == 0..cap

----------------------------------------------------------------------------
(* The Task collection (mongoose TaskModel) *)

\* A document matches a query when it has every queried field with the
\* queried value.
Matches(doc, query) ==
  \A f \in DOMAIN query : f \in DOMAIN doc /\ doc[f] = query[f]

\* TaskModel.find(query): the ids of the matching documents.
Find(store, query) == {i \in DOMAIN store : Matches(store[i], query)}

\* TaskModel.deleteMany(query).
DeleteMany(store, query) ==
  [i \in DOMAIN store \ Find(store, query) |-> store[i]]

\* TaskModel(doc).save(): the store generates the id.
Save(store, id, doc) ==
  [i \in DOMAIN store \cup {id} |->
     IF i = id THEN [id |-> id] @@ doc ELSE store[i]]

\* An update applied to every document instead of the one with the id.
FindByIdAndUpdateAll(store, id, update) ==
  [i \in DOMAIN store |-> update @@ store[i]]

\* TaskModel.findByIdAndUpdate(id, update): sets the updated fields of the
\* document with that id, and changes nothing when there is none.
FindByIdAndUpdate(store, id, update) ==
  [i \in DOMAIN store |-> IF i = id THEN update @@ store[i] ELSE store[i]]

\* Binary string order: a proper prefix first, else by the first difference.
RECURSIVE StrLess(_, _)
StrLess(a, b) ==
  IF b = <<>> THEN FALSE
  ELSE IF a = <<>> THEN TRUE
  ELSE IF a[1] # b[1] THEN CharCode[a[1]] < CharCode[b[1]]
  ELSE StrLess(Tail(a), Tail(b))

\* A sort on the text alone.
SortLessTextOnly(x, y) == StrLess(x.text, y.text)

\* The order of .sort({ "done": 1, "text": 1 }): false before true, then text.
SortLess(x, y) ==
  \/ ~x.done /\ y.done
  \/ x.done = y.done /\ StrLess(x.text, y.text)

\* Insert one document into a sorted sequence, after its equals.
RECURSIVE SortInsert(_, _)
SortInsert(d, s) ==
  IF s = <<>> THEN <<d>>
  ELSE IF SortLess(d, Head(s)) THEN <<d>> \o s
  ELSE <<Head(s)>> \o SortInsert(d, Tail(s))

\* The sort applied to the documents in the order the scan produced them.
RECURSIVE SortDocs(_)
SortDocs(s) ==
  IF s = <<>> THEN <<>>
  ELSE SortInsert(s[Len(s)], SortDocs(SubSeq(s, 1, Len(s) - 1)))

\* The orders in which a scan may produce a set of documents.
ScanOrders(ids) ==
  {o \in [1..Cardinality(ids) -> ids] : \A i \in ids : \E k \in DOMAIN o : o[k] = i}

----------------------------------------------------------------------------
(* Responses *)

\* res.render('index', { listName, tasks }).
Render(listName, docs) == [kind |-> "render", listName |-> listName, tasks |-> docs]

\* res.redirect(target); the target is <<"login">> for /login, <<"list", n>>
\* for /list/n, <<"root">> for /, <<"root", n>> for /n and <<"relative", n>>
\* for the relative path n.
Redirect(target) == [kind |-> "redirect", to |-> target]

\* An exception left the async handler: the promise it returned is rejected
\* and nobody handles it; no response is sent.
Unhandled == [kind |-> "unhandled"]

\* The handler returned without sending a response.
NoResponse == [kind |-> "none"]

\* The number of calls of res.render and res.redirect made by a handler that
\* sends its response, if it sends one, at a single place of its code.
ResponseCalls(rs) == IF rs.kind \in {"render", "redirect"} THEN 1 ELSE 0

----------------------------------------------------------------------------
(* The variant with users: src/index.js lines 236-794 *)

\* renderList(res, listName, userId): the page of one list of one user.
renderList(listName, userId, order, ok) ==
  LET _listName == Capitalize(listName)
      listData  == SortDocs([k \in DOMAIN order |-> tasks[order[k]]])
  IN  IF ok THEN Render(_listName, listData) ELSE NoResponse

\* A find that leaves the user out of the query.
renderListQueryAnyUser(listName, userId) == [listName |-> Capitalize(listName)]

\* The query of renderList's find.
renderListQuery(listName, userId) ==
  [listName |-> Capitalize(listName), userId |-> userId]

\* A deleteList without the guard.
deleteListCallsUnguarded(listName) == TRUE

\* deleteList(listName, userId): TRUE when the default list guard lets the
\* call through to the store.
deleteListCalls(listName) == listName # DEFAULT_LIST

\* A deleteList that removes the done tasks only.
deleteListQueryDoneOnly(listName, userId) ==
  [listName |-> listName, userId |-> userId, done |-> TRUE]

\* The query of deleteList's deleteMany.
deleteListQuery(listName, userId) == [listName |-> listName, userId |-> userId]

\* A prune that leaves the done field out of the query.
pruneListQueryAnyDone(listName, userId) == [listName |-> listName, userId |-> userId]

\* The query of pruneList's deleteMany.
pruneListQuery(listName, userId) ==
  [listName |-> listName, userId |-> userId, done |-> TRUE]

\* pruneList(listName, userId): the call puts its deleteMany in flight and
\* returns.
pruneList(listName, userId) ==
  [listName |-> listName, userId |-> userId,
   query |-> pruneListQuery(listName, userId)]

\* A coercion that takes every present value as true.
coerceDoneTruthy(doneValue) == doneValue # "none"

\* The value of the done field set by the mark-done handler.
coerceDone(doneValue) == doneValue = "on"

\* The document saved by the add branch of the POST handler.
newTask(raw, newItem, userId) ==
  [listName |-> raw, text |-> newItem, done |-> FALSE, userId |-> userId]

\* GET /list/:listName
ListGet(raw, user, order, ok) ==
  LET listName == IF raw # <<>> THEN raw ELSE DEFAULT_LIST IN
  /\ variant = "auth"
  /\ order \in ScanOrders(Find(tasks, renderListQuery(listName, user)))
  /\ step' = [op |-> "ListGet", raw |-> raw, user |-> user]
  /\ res' = IF user # NoUser
            THEN renderList(listName, user, order, ok)
            ELSE Redirect(<<"login">>)
  /\ sent' = ResponseCalls(res')
  /\ UNCHANGED <<variant, users, verifying, tasks, nextId, pending>>

\* POST /list/:listName with _method "delete".
ListPostDelete(raw, user, ok) ==
  LET listName == Capitalize(raw) IN
  /\ variant = "auth"
  /\ step' = [op |-> "ListPost", raw |-> raw, user |-> user, method |-> "delete"]
  /\ IF user = NoUser
     THEN /\ res' = Redirect(<<"login">>)
          /\ UNCHANGED tasks
     ELSE IF ~deleteListCalls(listName)
     THEN /\ res' = Redirect(<<"list", DEFAULT_LIST>>)
          /\ UNCHANGED tasks
     ELSE IF ok
     THEN /\ tasks' = DeleteMany(tasks, deleteListQuery(listName, user))
          /\ res' = Redirect(<<"list", DEFAULT_LIST>>)
     ELSE /\ res' = Unhandled
          /\ UNCHANGED tasks
  /\ sent' = ResponseCalls(res')
  /\ UNCHANGED <<variant, users, verifying, nextId, pending>>

\* POST /list/:listName with _method "prune": pruneList issues the deleteMany
\* and returns without waiting for it.
ListPostPrune(raw, user) ==
  LET listName == Capitalize(raw) IN
  /\ variant = "auth"
  /\ step' = [op |-> "ListPost", raw |-> raw, user |-> user, method |-> "prune"]
  /\ IF user = NoUser
     THEN /\ res' = Redirect(<<"login">>)
          /\ UNCHANGED pending
     ELSE /\ pending' = pending (+) SetToBag({pruneList(listName, user)})
          /\ res' = Redirect(<<"list", listName>>)
  /\ sent' = ResponseCalls(res')
  /\ UNCHANGED <<variant, users, verifying, tasks, nextId>>

\* POST /list/:listName with any other _method: add a task.
ListPostAdd(raw, user, newItem, ok) ==
  LET listName == Capitalize(raw) IN
  /\ variant = "auth"
  /\ step' = [op |-> "ListPost", raw |-> raw, user |-> user, method |-> "none",
              newItem |-> newItem]
  /\ IF user = NoUser
     THEN /\ res' = Redirect(<<"login">>)
          /\ UNCHANGED <<tasks, nextId>>
     ELSE IF ok
     THEN /\ nextId' = nextId + 1
          /\ tasks' = Save(tasks, nextId + 1, newTask(raw, newItem, user))
          /\ res' = Redirect(<<"list", listName>>)
     ELSE /\ res' = Unhandled
          /\ UNCHANGED <<tasks, nextId>>
  /\ sent' = ResponseCalls(res')
  /\ UNCHANGED <<variant, users, verifying, pending>>

\* POST /list/:listName/:_id/done.  The first statement reads req.user.id,
\* which throws when there is no session; a malformed id makes the store
\* call throw.
DonePost(raw, id, doneValue, user, ok) ==
  LET done == coerceDone(doneValue) IN
  /\ variant = "auth"
  /\ step' = [op |-> "DonePost", raw |-> raw, user |-> user, id |-> id,
              done |-> doneValue]
  /\ IF user = NoUser \/ ~WellFormedId(id) \/ ~ok
     THEN /\ res' = Unhandled
          /\ UNCHANGED tasks
     ELSE /\ tasks' = FindByIdAndUpdate(tasks, id, [done |-> done])
          /\ res' = Redirect(<<"list", raw>>)
  /\ sent' = ResponseCalls(res')
  /\ UNCHANGED <<variant, users, verifying, nextId, pending>>

\* The deleteMany of a pruneList call reaches the store and is executed, or
\* fails; nobody waits for its result.
DeleteManyExec(call, ok) ==
  /\ BagIn(call, pending)
  /\ pending' = pending (-) SetToBag({call})
  /\ step' = [op |-> "DeleteManyExec", listName |-> call.listName,
              user |-> call.userId, ok |-> ok,
              deleted |-> IF ok THEN Cardinality(Find(tasks, call.query)) ELSE 0]
  /\ tasks' = IF ok THEN DeleteMany(tasks, call.query) ELSE tasks
  /\ res' = NoResponse
  /\ sent' = ResponseCalls(res')
  /\ UNCHANGED <<variant, users, verifying, nextId>>

----------------------------------------------------------------------------
(* The variant without users: src/index.js lines 1-235 *)

\* renderList(res, name): the page of one list.
renderListBase(name, order, ok) ==
  LET listName == Capitalize(name)
      listData == SortDocs([k \in DOMAIN order |-> tasks[order[k]]])
  IN  IF ok THEN Render(listName, listData) ELSE NoResponse

\* The query of renderList's find.
renderListBaseQuery(name) == [listName |-> Capitalize(name)]

\* deleteList(name): TRUE when the guard lets the call through to the store.
deleteListBaseCalls(name) == name # DEFAULT_LIST

\* The query of deleteList's deleteMany.
deleteListBaseQuery(name) == [listName |-> name]

\* The query of pruneList's deleteMany.
pruneListBaseQuery(name) == [listName |-> name, done |-> TRUE]

\* pruneList(name): the call puts its deleteMany in flight and returns.
pruneListBase(name) ==
  [listName |-> name, userId |-> NoUser, query |-> pruneListBaseQuery(name)]

\* The value of the done field set by the mark-done handler.
coerceDoneBase(doneValue) == IF doneValue = "on" THEN TRUE ELSE FALSE

\* The document saved by the add branch of the POST handler.
newTaskBase(raw, newItem) == [listName |-> raw, text |-> newItem, done |-> FALSE]

\* GET /:listName
BaseListGet(raw, order, ok) ==
  LET listName == IF raw # <<>> THEN raw ELSE DEFAULT_LIST IN
  /\ variant = "base"
  /\ order \in ScanOrders(Find(tasks, renderListBaseQuery(listName)))
  /\ step' = [op |-> "ListGet", raw |-> raw, user |-> NoUser]
  /\ res' = renderListBase(listName, order, ok)
  /\ sent' = ResponseCalls(res')
  /\ UNCHANGED <<variant, users, verifying, tasks, nextId, pending>>

\* POST /:listName with _method "delete".
BaseListPostDelete(raw, ok) ==
  LET listName == Capitalize(raw) IN
  /\ variant = "base"
  /\ step' = [op |-> "ListPost", raw |-> raw, user |-> NoUser, method |-> "delete"]
  /\ IF ~deleteListBaseCalls(listName)
     THEN /\ res' = Redirect(<<"root">>)
          /\ UNCHANGED tasks
     ELSE IF ok
     THEN /\ tasks' = DeleteMany(tasks, deleteListBaseQuery(listName))
          /\ res' = Redirect(<<"root">>)
     ELSE /\ res' = Unhandled
          /\ UNCHANGED tasks
  /\ sent' = ResponseCalls(res')
  /\ UNCHANGED <<variant, users, verifying, nextId, pending>>

\* POST /:listName with _method "prune": the deleteMany is not awaited.
BaseListPostPrune(raw) ==
  LET listName == Capitalize(raw) IN
  /\ variant = "base"
  /\ step' = [op |-> "ListPost", raw |-> raw, user |-> NoUser, method |-> "prune"]
  /\ pending' = pending (+) SetToBag({pruneListBase(listName)})
  /\ res' = Redirect(<<"relative", listName>>)
  /\ sent' = ResponseCalls(res')
  /\ UNCHANGED <<variant, users, verifying, tasks, nextId>>

\* POST /:listName with any other _method: add a task.
BaseListPostAdd(raw, newItem, ok) ==
  LET listName == Capitalize(raw) IN
  /\ variant = "base"
  /\ step' = [op |-> "ListPost", raw |-> raw, user |-> NoUser, method |-> "none",
              newItem |-> newItem]
  /\ IF ok
     THEN /\ nextId' = nextId + 1
          /\ tasks' = Save(tasks, nextId + 1, newTaskBase(raw, newItem))
          /\ res' = Redirect(<<"relative", listName>>)
     ELSE /\ res' = Unhandled
          /\ UNCHANGED <<tasks, nextId>>
  /\ sent' = ResponseCalls(res')
  /\ UNCHANGED <<variant, users, verifying, pending>>

\* DELETE /:listName: logs the request and sends nothing.
BaseListDelete(raw) ==
  /\ variant = "base"
  /\ step' = [op |-> "ListDelete", raw |-> raw, user |-> NoUser]
  /\ res' = NoResponse
  /\ sent' = ResponseCalls(res')
  /\ UNCHANGED <<variant, users, verifying, tasks, nextId, pending>>

\* POST /:listName/:_id/done
BaseDonePost(raw, id, doneValue, ok) ==
  LET done == coerceDoneBase(doneValue) IN
  /\ variant = "base"
  /\ step' = [op |-> "DonePost", raw |-> raw, user |-> NoUser, id |-> id,
              done |-> doneValue]
  /\ IF ~WellFormedId(id) \/ ~ok
     THEN /\ res' = Unhandled
          /\ UNCHANGED tasks
     ELSE /\ tasks' = FindByIdAndUpdate(tasks, id, [done |-> done])
          /\ res' = Redirect(<<"root", raw>>)
  /\ sent' = ResponseCalls(res')
  /\ UNCHANGED <<variant, users, verifying, nextId, pending>>

----------------------------------------------------------------------------
(* Users of the variant with users: src/index.js lines 319-412, 496-595 *)

\* req.body.username of /register and /login, and profile.id of Google.
UserNames == {"alice", "bob"}

\* req.body.password.
Passwords == {"pw1", "wrong"}

\* A collection without the unique index.
UniqueViolationNone(coll, username) == FALSE

\* username: { type: String, unique: true }: a save of a document whose
\* username another document has is refused with a duplicate key error.
UniqueViolation(coll, username) ==
  \E i \in DOMAIN coll : coll[i].username = username

\* UserModel.findOne(query): the first matching document, as the set of its
\* position in the collection; the empty set stands for null.
FindOne(coll, query) ==
  LET found == {i \in DOMAIN coll : Matches(coll[i], query)}
  IN  IF found = {} THEN {} ELSE {CHOOSE i \in found : \A j \in found : i <= j}

\* A comparison that accepts every password.
passwordMatchesAlways(password, user) == TRUE

\* password !== user.password, negated.
passwordMatches(password, user) == password = user.password

\* The verify callback of LocalStrategy: the user handed to cb, as a set; the
\* empty set stands for cb(null, false).
LocalVerify(username, password) ==
  LET query == [username |-> username, userStrategy |-> "LocalStrategy"]
      user  == FindOne(users, query)
  IN  IF user = {} THEN {}
      ELSE IF \E i \in user : ~passwordMatches(password, users[i]) THEN {}
      ELSE user

\* POST /login: passport.authenticate('local') runs the verify callback, logs
\* the user in and redirects to the default list, or redirects to /loginFail.
\* The callback has no catch: a failing findOne leaves the request unanswered.
LoginPost(username, password, ok) ==
  LET user == LocalVerify(username, password) IN
  /\ variant = "auth"
  /\ step' = [op |-> "Login", username |-> username, password |-> password,
              loggedIn |-> IF ok THEN user ELSE {}]
  /\ res' = IF ~ok THEN Unhandled
            ELSE IF user # {} THEN Redirect(<<"list", DEFAULT_LIST>>)
            ELSE Redirect(<<"loginFail">>)
  /\ sent' = ResponseCalls(res')
  /\ UNCHANGED <<variant, tasks, nextId, pending, users, verifying>>

\* POST /register: save the user, then req.login.  A refused or failed save
\* is caught and answered with /registerFail.  When req.login fails the
\* callback redirects to /loginFail and, having no return, goes on to redirect
\* to the default list as well.
RegisterPost(username, password, loginOk, ok) ==
  LET user == [username |-> username, password |-> password,
               userStrategy |-> "LocalStrategy"]
      saved == ok /\ ~UniqueViolation(users, username)
  IN
  /\ variant = "auth"
  /\ step' = [op |-> "Register", username |-> username, password |-> password,
              saved |-> saved,
              loggedIn |-> IF saved /\ loginOk THEN {Len(users) + 1} ELSE {}]
  /\ users' = IF saved THEN Append(users, user) ELSE users
  /\ res' = IF ~saved THEN Redirect(<<"registerFail">>)
            ELSE IF ~loginOk THEN Redirect(<<"loginFail">>)
            ELSE Redirect(<<"list", DEFAULT_LIST>>)
  /\ sent' = IF saved /\ ~loginOk THEN 2 ELSE 1
  /\ UNCHANGED <<variant, tasks, nextId, pending, verifying>>

\* The query of the findOne of GoogleStrategy's verify callback.
GoogleQuery(profile) == [username |-> profile, userStrategy |-> "GoogleStrategy"]

\* GET /auth/google/reply, first part: the verify callback of GoogleStrategy
\* looks the user up.  A user found is logged in; otherwise the callback goes
\* on to save a new user.  The callback has no catch.
GoogleReply(profile, ok) ==
  LET user == FindOne(users, GoogleQuery(profile)) IN
  /\ variant = "auth"
  /\ step' = [op |-> "GoogleReply", username |-> profile,
              loggedIn |-> IF ok THEN user ELSE {}]
  /\ verifying' = IF ok /\ user = {} THEN verifying (+) SetToBag({profile})
                  ELSE verifying
  /\ res' = IF ~ok THEN Unhandled
            ELSE IF user # {} THEN Redirect(<<"list", DEFAULT_LIST>>)
            ELSE NoResponse
  /\ sent' = ResponseCalls(res')
  /\ UNCHANGED <<variant, tasks, nextId, pending, users>>

\* GET /auth/google/reply, second part: the save of the new user is executed.
\* The saved user is logged in; a refused or failed save throws out of the
\* callback and the request is left unanswered.
GoogleSave(profile, ok) ==
  LET user  == [username |-> profile, userStrategy |-> "GoogleStrategy"]
      saved == ok /\ ~UniqueViolation(users, profile)
  IN
  /\ variant = "auth"
  /\ BagIn(profile, verifying)
  /\ verifying' = verifying (-) SetToBag({profile})
  /\ step' = [op |-> "GoogleSave", username |-> profile,
              loggedIn |-> IF saved THEN {Len(users) + 1} ELSE {}]
  /\ users' = IF saved THEN Append(users, user) ELSE users
  /\ res' = IF saved THEN Redirect(<<"list", DEFAULT_LIST>>) ELSE Unhandled
  /\ sent' = ResponseCalls(res')
  /\ UNCHANGED <<variant, tasks, nextId, pending>>

----------------------------------------------------------------------------
(* The older servers: src/unnamed/part_000 ("part0"), whose handlers await *)
(* their store calls except the prune, and src/unnamed/part_001 ("part1"), *)
(* whose handlers await none.  Neither capitalizes a list name.            *)

\* req.params.listName and req.body.listName of the older servers.
OldNames == {DEFAULT_LIST, Work}

\* renderList(res, name): the page of one list.
renderListOld(name, order, ok) ==
  LET listData == SortDocs([k \in DOMAIN order |-> tasks[order[k]]])
  IN  IF ok THEN Render(name, listData) ELSE NoResponse

\* The query of renderList's find.
renderListOldQuery(name) == [listName |-> name]

\* The document saved by POST /.
newTaskOld(listName, newItem) ==
  [listName |-> listName, text |-> newItem, done |-> FALSE]

\* The query of the deleteMany of POST /prune.
pruneOldQuery(listName) == [done |-> TRUE]

\* GET /:listName of part0; GET /Personal and GET /Work of part1.
OldListGet(raw, order, ok) ==
  LET listName == IF raw # <<>> THEN raw ELSE DEFAULT_LIST IN
  /\ variant \in {"part0", "part1"}
  /\ order \in ScanOrders(Find(tasks, renderListOldQuery(listName)))
  /\ step' = [op |-> "ListGet", raw |-> raw, user |-> NoUser]
  /\ res' = renderListOld(listName, order, ok)
  /\ sent' = ResponseCalls(res')
  /\ UNCHANGED <<variant, users, verifying, tasks, nextId, pending>>

\* POST / of part0: add a task, then redirect.
OldPost(listName, newItem, ok) ==
  /\ variant = "part0"
  /\ step' = [op |-> "ListPost", raw |-> listName, user |-> NoUser,
              method |-> "none", newItem |-> newItem]
  /\ IF ok
     THEN /\ nextId' = nextId + 1
          /\ tasks' = Save(tasks, nextId + 1, newTaskOld(listName, newItem))
          /\ res' = Redirect(<<"root", listName>>)
     ELSE /\ res' = Unhandled
          /\ UNCHANGED <<tasks, nextId>>
  /\ sent' = ResponseCalls(res')
  /\ UNCHANGED <<variant, users, verifying, pending>>

\* POST / of part1: the save is issued and the redirect sent at once.
OldPostNoWait(listName, newItem) ==
  /\ variant = "part1"
  /\ step' = [op |-> "ListPost", raw |-> listName, user |-> NoUser,
              method |-> "none", newItem |-> newItem]
  /\ nextId' = nextId + 1
  /\ pending' = pending (+) SetToBag({[id |-> nextId + 1,
                                       doc |-> newTaskOld(listName, newItem)]})
  /\ res' = Redirect(<<"root", listName>>)
  /\ sent' = ResponseCalls(res')
  /\ UNCHANGED <<variant, users, verifying, tasks>>

\* POST /done/:listName/:_id of part0.
OldDonePost(raw, id, doneValue, ok) ==
  LET done == coerceDoneBase(doneValue) IN
  /\ variant = "part0"
  /\ step' = [op |-> "DonePost", raw |-> raw, user |-> NoUser, id |-> id,
              done |-> doneValue]
  /\ IF ~WellFormedId(id) \/ ~ok
     THEN /\ res' = Unhandled
          /\ UNCHANGED tasks
     ELSE /\ tasks' = FindByIdAndUpdate(tasks, id, [done |-> done])
          /\ res' = Redirect(<<"root", raw>>)
  /\ sent' = ResponseCalls(res')
  /\ UNCHANGED <<variant, users, verifying, nextId, pending>>

\* POST /done/:listName/:_id of part1: the update is issued and the redirect
\* sent at once.
OldDonePostNoWait(raw, id, doneValue) ==
  LET done == coerceDoneBase(doneValue) IN
  /\ variant = "part1"
  /\ step' = [op |-> "DonePost", raw |-> raw, user |-> NoUser, id |-> id,
              done |-> doneValue]
  /\ pending' = pending (+) SetToBag({[id |-> id, update |-> [done |-> done]]})
  /\ res' = Redirect(<<"root", raw>>)
  /\ sent' = ResponseCalls(res')
  /\ UNCHANGED <<variant, users, verifying, tasks, nextId>>

\* POST /prune of part0 and part1: the deleteMany is issued and the redirect
\* to the list named in the body sent at once.
OldPrune(listName) ==
  /\ variant \in {"part0", "part1"}
  /\ step' = [op |-> "ListPost", raw |-> listName, user |-> NoUser,
              method |-> "prune"]
  /\ pending' = pending (+) SetToBag({[listName |-> listName, userId |-> NoUser,
                                       query |-> pruneOldQuery(listName)]})
  /\ res' = Redirect(<<"root", listName>>)
  /\ sent' = ResponseCalls(res')
  /\ UNCHANGED <<variant, users, verifying, tasks, nextId>>

\* The save of a POST / of part1 reaches the store.
SaveExec(call, ok) ==
  /\ BagIn(call, pending)
  /\ pending' = pending (-) SetToBag({call})
  /\ step' = [op |-> "SaveExec", id |-> call.id, ok |-> ok]
  /\ tasks' = IF ok THEN Save(tasks, call.id, call.doc) ELSE tasks
  /\ res' = NoResponse
  /\ sent' = ResponseCalls(res')
  /\ UNCHANGED <<variant, users, verifying, nextId>>

\* The findByIdAndUpdate of a mark-done of part1 reaches the store; an id
\* that is no ObjectId makes it fail.
UpdateExec(call, ok) ==
  /\ BagIn(call, pending)
  /\ pending' = pending (-) SetToBag({call})
  /\ step' = [op |-> "UpdateExec", id |-> call.id, ok |-> ok]
  /\ tasks' = IF ok /\ WellFormedId(call.id)
              THEN FindByIdAndUpdate(tasks, call.id, call.update)
              ELSE tasks
  /\ res' = NoResponse
  /\ sent' = ResponseCalls(res')
  /\ UNCHANGED <<variant, users, verifying, nextId>>

----------------------------------------------------------------------------
(* Specification *)

\* The store is empty when the server is first started.
Init ==
  /\ variant \in {"base", "auth"}
  /\ tasks = <<>>
  /\ nextId = 0
  /\ pending = EmptyBag
  /\ users = <<>>
  /\ verifying = EmptyBag
  /\ step = [op |-> "start"]
  /\ res = NoResponse
  /\ sent = 0

\* The store is empty and the variant with users is the one running.
InitAuth == Init /\ variant = "auth"

\* A request to the variant with users is handled.  The request is drawn
\* from the given inputs; cap bounds the documents ever created and Oks is
\* the set of outcomes a store call may have.
HandleAuth(Names, Senders, Items, Vals, Oks, cap) ==
  \/ \E raw \in Names, user \in Senders, ok \in Oks :
       \E order \in ScanOrders(Find(tasks, renderListQuery(raw, user))) :
         ListGet(raw, user, order, ok)
  \/ \E raw \in Names, user \in Senders, ok \in Oks :
       ListPostDelete(raw, user, ok)
  \/ \E raw \in Names, user \in Senders :
       /\ BagCardinality(pending) < MaxPending
       /\ ListPostPrune(raw, user)
  \/ \E raw \in Names, user \in Senders, newItem \in Items, ok \in Oks :
       /\ nextId < cap
       /\ ListPostAdd(raw, user, newItem, ok)
  \/ \E id \in ReqIds(cap), doneValue \in Vals, user \in Senders, ok \in Oks :
       DonePost(Work, id, doneValue, user, ok)

\* A request to the variant without users is handled.
HandleBase(Names, Items, Vals, Oks, cap) ==
  \/ \E raw \in Names, ok \in Oks :
       \E order \in ScanOrders(Find(tasks, renderListBaseQuery(raw))) :
         BaseListGet(raw, order, ok)
  \/ \E raw \in Names, ok \in Oks : BaseListPostDelete(raw, ok)
  \/ \E raw \in Names :
       /\ BagCardinality(pending) < MaxPending
       /\ BaseListPostPrune(raw)
  \/ \E raw \in Names, newItem \in Items, ok \in Oks :
       /\ nextId < cap
       /\ BaseListPostAdd(raw, newItem, ok)
  \/ \E raw \in Names : BaseListDelete(raw)
  \/ \E id \in ReqIds(cap), doneValue \in Vals, ok \in Oks :
       BaseDonePost(Work, id, doneValue, ok)

\* A deleteMany in flight reaches the store.
Exec(Oks) ==
  \E call \in BagToSet(pending), ok \in Oks : DeleteManyExec(call, ok)

\* Spec: both variants, every list name and every sender, one item text, a
\* store that works.
Next ==
  \/ HandleAuth(RawNames, Requesters, {<<"a">>}, DoneValues, {TRUE}, MaxTasks)
  \/ HandleBase(RawNames, {<<"a">>}, DoneValues, {TRUE}, MaxTasks)
  \/ Exec({TRUE})

Spec == Init /\ [][Next]_vars

\* SpecDefault: as Spec, with the names that stand for the default list.
NextDefault ==
  \/ HandleAuth(DefaultNames, Requesters, {<<"a">>}, DoneValues, {TRUE}, MaxTasks)
  \/ HandleBase(DefaultNames, {<<"a">>}, DoneValues, {TRUE}, MaxTasks)
  \/ Exec({TRUE})

SpecDefault == Init /\ [][NextDefault]_vars

\* SpecWork: as Spec, with the names that stand for the list Work.
NextWork ==
  \/ HandleAuth(WorkNames, Requesters, {<<"a">>}, DoneValues, {TRUE}, MaxTasks)
  \/ HandleBase(WorkNames, {<<"a">>}, DoneValues, {TRUE}, MaxTasks)
  \/ Exec({TRUE})

SpecWork == Init /\ [][NextWork]_vars

\* SpecTexts: the variant with users, one list and one user, every item text,
\* a store that works.
NextTexts ==
  \/ HandleAuth({Work}, {"u1"}, Texts, {"on", "none"}, {TRUE}, MaxTextTasks)
  \/ Exec({TRUE})

SpecTexts == InitAuth /\ [][NextTexts]_vars

\* A request of the user routes is handled, or a save of a Google user is
\* executed.  cap bounds the user documents created or about to be created.
HandleUsers(Names, Words, LoginOks, Oks, cap) ==
  \/ \E username \in Names, password \in Words, ok \in Oks :
       LoginPost(username, password, ok)
  \/ \E username \in Names, password \in Words, loginOk \in LoginOks, ok \in Oks :
       /\ \/ Len(users) + BagCardinality(verifying) < cap
          \/ UniqueViolation(users, username)
       /\ RegisterPost(username, password, loginOk, ok)
  \/ \E profile \in Names, ok \in Oks :
       /\ \/ Len(users) + BagCardinality(verifying) < cap
          \/ FindOne(users, GoogleQuery(profile)) # {}
       /\ GoogleReply(profile, ok)
  \/ \E profile \in BagToSet(verifying), ok \in Oks : GoogleSave(profile, ok)

\* SpecUsers: the user routes of the variant with users, a store that works,
\* a req.login that may fail.
NextUsers == HandleUsers(UserNames, Passwords, BOOLEAN, {TRUE}, MaxUsers)

SpecUsers == InitAuth /\ [][NextUsers]_vars

\* SpecFaulty: both variants, one list name and one user, a store whose calls
\* may fail.
NextFaulty ==
  \/ HandleAuth({Work}, {"u1"}, {<<"a">>}, {"on"}, BOOLEAN, MaxTasks)
  \/ HandleBase({Work}, {<<"a">>}, {"on"}, BOOLEAN, MaxTasks)
  \/ Exec(BOOLEAN)

SpecFaulty == Init /\ [][NextFaulty]_vars

\* The store is empty and one of the older servers is running.
InitOld ==
  /\ variant \in {"part0", "part1"}
  /\ tasks = <<>>
  /\ nextId = 0
  /\ pending = EmptyBag
  /\ users = <<>>
  /\ verifying = EmptyBag
  /\ step = [op |-> "start"]
  /\ res = NoResponse
  /\ sent = 0

\* A request to one of the older servers is handled.
HandleOld(Names, Items, Vals, Oks, cap) ==
  \/ \E raw \in Names, ok \in Oks :
       \E order \in ScanOrders(Find(tasks, renderListOldQuery(raw))) :
         OldListGet(raw, order, ok)
  \/ \E listName \in Names, newItem \in Items, ok \in Oks :
       /\ nextId < cap
       /\ OldPost(listName, newItem, ok)
  \/ \E listName \in Names, newItem \in Items :
       /\ nextId < cap
       /\ BagCardinality(pending) < MaxPending
       /\ OldPostNoWait(listName, newItem)
  \/ \E raw \in Names, id \in ReqIds(cap), doneValue \in Vals, ok \in Oks :
       OldDonePost(raw, id, doneValue, ok)
  \/ \E raw \in Names, id \in ReqIds(cap), doneValue \in Vals :
       /\ BagCardinality(pending) < MaxPending
       /\ OldDonePostNoWait(raw, id, doneValue)
  \/ \E listName \in Names :
       /\ BagCardinality(pending) < MaxPending
       /\ OldPrune(listName)

\* A store call in flight of one of the older servers reaches the store.
ExecOld(Oks) ==
  \E call \in BagToSet(pending), ok \in Oks :
    IF "query" \in DOMAIN call THEN DeleteManyExec(call, ok)
    ELSE IF "doc" \in DOMAIN call THEN SaveExec(call, ok)
    ELSE UpdateExec(call, ok)

\* SpecOld: the older servers, two lists, one item text, a store that works.
NextOld ==
  \/ HandleOld(OldNames, {<<"a">>}, {"on", "none"}, {TRUE}, MaxTasks)
  \/ ExecOld({TRUE})

SpecOld == InitOld /\ [][NextOld]_vars

----------------------------------------------------------------------------
(* Properties *)

\* A document is in the scope (list, owner); the variant without users has
\* the list as its only scope.
InScope(doc, listName, user) ==
  /\ doc.listName = listName
  /\ variant = "auth" => doc.userId = user

\* a <= b in the binary order of strings, said without recursion: they agree
\* on n characters, after which a ends or has the smaller character.
TextLeq(a, b) ==
  \E n \in 0..Len(a) :
    /\ n <= Len(b)
    /\ \A k \in 1..n : a[k] = b[k]
    /\ \/ n = Len(a)
       \/ n < Len(b) /\ CharCode[a[n + 1]] < CharCode[b[n + 1]]

\* C1: when an add-item request of a logged-in user has completed and the
\* same user then views the list under the same name, the page holds the
\* created task exactly once, as a pending task.
C1_AddThenViewShowsTask ==
  [][ ( /\ step.op = "ListPost" /\ step.method = "none" /\ step.user # NoUser
        /\ res.kind = "redirect"
        /\ step'.op = "ListGet" /\ step'.raw = step.raw /\ step'.user = step.user
        /\ res'.kind = "render" )
      => Cardinality({k \in DOMAIN res'.tasks :
                        res'.tasks[k].id = nextId /\ ~res'.tasks[k].done}) = 1 ]_vars

\* C2: a delete-list request whose name normalizes to the default list name
\* leaves the store unchanged, whoever sends it and in whatever letter case.
C2_DefaultListNeverDeleted ==
  [][ ( /\ step'.op = "ListPost" /\ step'.method = "delete"
        /\ Capitalize(step'.raw) = DEFAULT_LIST )
      => tasks' = tasks ]_vars

\* C2 witness: a user who has a task in the default list has just asked to
\* delete it under a name in another letter case.
C2_Witness ==
  /\ step.op = "ListPost" /\ step.method = "delete"
  /\ step.raw # DEFAULT_LIST /\ Capitalize(step.raw) = DEFAULT_LIST
  /\ step.user \in Users
  /\ \E i \in DOMAIN tasks :
       tasks[i].listName = DEFAULT_LIST /\ tasks[i].userId = step.user

\* C3: when the deleteMany of pruneList(list, owner) is executed, the tasks of
\* the scope (list, owner) afterwards are exactly its tasks that were not done
\* before, each unmodified.
C3_PruneRemovesExactlyDone ==
  [][ (step'.op = "DeleteManyExec" /\ step'.ok)
      => LET before == {i \in DOMAIN tasks :
                          InScope(tasks[i], step'.listName, step'.user)}
             after  == {i \in DOMAIN tasks' :
                          InScope(tasks'[i], step'.listName, step'.user)}
         IN  /\ after = {i \in before : ~tasks[i].done}
             /\ \A i \in after : tasks'[i] = tasks[i] ]_vars

\* C3 witness: a prune has just removed a task and left a pending task of the
\* same scope in the store.
C3_Witness ==
  /\ step.op = "DeleteManyExec" /\ step.ok /\ step.deleted >= 1
  /\ \E i \in DOMAIN tasks :
       InScope(tasks[i], step.listName, step.user) /\ ~tasks[i].done

\* C4: the page rendered for a user holds only that user's tasks, and a
\* delete-list or prune of a user removes only that user's tasks.
C4_OwnerIsolation ==
  /\ [](( /\ variant = "auth" /\ step.op = "ListGet" /\ res.kind = "render" )
         => \A k \in DOMAIN res.tasks : res.tasks[k].userId = step.user)
  /\ [][ ( /\ variant = "auth"
           /\ \/ step'.op = "ListPost" /\ step'.method \in {"delete", "prune"}
              \/ step'.op = "DeleteManyExec" )
         => \A i \in DOMAIN tasks \ DOMAIN tasks' : tasks[i].userId = step'.user ]_vars

\* C4 witness: a user sees a page with a task while another user has a task
\* in a list of the same name.
C4_Witness ==
  /\ variant = "auth" /\ step.op = "ListGet" /\ res.kind = "render"
  /\ Len(res.tasks) >= 1
  /\ \E i \in DOMAIN tasks :
       tasks[i].listName = res.listName /\ tasks[i].userId # step.user

\* C5: a rendered page lists no done task before a pending one, and tasks
\* with equal done in non-decreasing order of text.
C5_ViewSorted ==
  res.kind = "render"
    => \A j, k \in DOMAIN res.tasks :
         j < k => /\ ~(res.tasks[j].done /\ ~res.tasks[k].done)
                  /\ res.tasks[j].done = res.tasks[k].done
                       => TextLeq(res.tasks[j].text, res.tasks[k].text)

\* C5 witness: a page of three tasks, a done one and two pending ones of
\* different text, of which the first was created after the second.
C5_Witness ==
  /\ res.kind = "render" /\ Len(res.tasks) = 3
  /\ ~res.tasks[1].done /\ ~res.tasks[2].done /\ res.tasks[3].done
  /\ res.tasks[1].text # res.tasks[2].text
  /\ res.tasks[1].id > res.tasks[2].id

\* The mark-done request just handled was answered with the redirect back to
\* its list: the handler ran to its end.
DoneCompleted(st, rs) == st.op = "DonePost" /\ rs.kind = "redirect"

\* C6: after a completed mark-done request with value v on a stored task the
\* task is done exactly when v is "on"; "on" followed by another value leaves
\* it pending, and repeating a request changes nothing.
C6_DoneIffOn ==
  /\ []((DoneCompleted(step, res) /\ step.id \in DOMAIN tasks)
         => tasks[step.id].done = (step.done = "on"))
  /\ [][ ( /\ DoneCompleted(step, res) /\ step.done = "on"
           /\ DoneCompleted(step', res') /\ step'.done # "on"
           /\ step'.id = step.id /\ step.id \in DOMAIN tasks )
         => (step.id \in DOMAIN tasks' /\ ~tasks'[step.id].done) ]_vars
  /\ [][ ( /\ DoneCompleted(step, res) /\ DoneCompleted(step', res')
           /\ step'.id = step.id /\ step'.done = step.done )
         => tasks' = tasks ]_vars

\* C6 witness: a task, created pending, is done after a completed request
\* with value "on".
C6_Witness ==
  /\ DoneCompleted(step, res) /\ step.done = "on"
  /\ step.id \in DOMAIN tasks /\ tasks[step.id].done

\* C7: with users, a request for a list, to a list or to mark a task done
\* that comes without a session changes no task and is answered with a
\* redirect.
C7_NoSessionRedirected ==
  [][ ( /\ variant = "auth" /\ step'.op \in {"ListGet", "ListPost", "DonePost"}
        /\ step'.user = NoUser )
      => (tasks' = tasks /\ res'.kind = "redirect") ]_vars

\* C8: a mark-done request for a well-formed id that no stored task has,
\* sent with a session where sessions exist, changes no task and gets an
\* answer other than the redirect a successful update gets.
C8_MissingTaskReported ==
  [][ ( /\ step'.op = "DonePost" /\ WellFormedId(step'.id)
        /\ step'.id \notin DOMAIN tasks
        /\ variant = "auth" => step'.user # NoUser )
      => (tasks' = tasks /\ res'.kind # "redirect") ]_vars

\* C9: every stored task has a non-empty text.
C9_NoEmptyText == \A i \in DOMAIN tasks : tasks[i].text # <<>>

\* C10: a mark-done request that names a stored task sets its done flag from
\* the request's value, whoever owns the task and whoever sends the request,
\* with or without a session.
C10_AnySenderSetsDone ==
  [][ (step'.op = "DonePost" /\ step'.id \in DOMAIN tasks)
      => ( /\ step'.id \in DOMAIN tasks'
           /\ tasks'[step'.id].done = (step'.done = "on") ) ]_vars

\* A mark-done request for the task with id i, sent with a session where
\* sessions exist, whose update changes the task's done flag.
MarkDoneFlips(i) ==
  /\ \E doneValue \in DoneValues :
       \/ \E user \in Users : DonePost(Work, i, doneValue, user, TRUE)
       \/ BaseDonePost(Work, i, doneValue, TRUE)
  /\ tasks'[i].done # tasks[i].done

\* C11: while a task is stored its listName, text and owner stay what they
\* were, and its done flag changes only in a mark-done step for its own id;
\* whatever its done flag is, one mark-done request can change it to the
\* other value.
C11_TaskFrame ==
  /\ [][ \A i \in DOMAIN tasks \cap DOMAIN tasks' :
           /\ tasks'[i].listName = tasks[i].listName
           /\ tasks'[i].text = tasks[i].text
           /\ variant = "auth" => tasks'[i].userId = tasks[i].userId
           /\ tasks'[i].done # tasks[i].done
                => (step'.op = "DonePost" /\ step'.id = i) ]_vars
  /\ [](\A i \in DOMAIN tasks : ENABLED MarkDoneFlips(i))

\* C11 witness: of two stored tasks, both created pending, one has just been
\* marked done and the other is still pending.
C11_Witness ==
  /\ DoneCompleted(step, res) /\ step.done = "on"
  /\ step.id \in DOMAIN tasks /\ tasks[step.id].done
  /\ \E j \in DOMAIN tasks : j # step.id /\ ~tasks[j].done

\* The positions of the locally registered users with a username and a
\* password.
LocalUsers(coll, username, password) ==
  {i \in DOMAIN coll : /\ coll[i].userStrategy = "LocalStrategy"
                       /\ coll[i].username = username
                       /\ coll[i].password = password}

\* C12: a local login with a username and a password succeeds, logging in
\* that user, exactly when a locally registered user has that username and
\* that password, and otherwise fails and logs nobody in; a login that follows
\* a registration of its username succeeds exactly with the registered
\* password.
C12_LocalAuthentication ==
  /\ [][ step'.op = "Login"
         => /\ step'.loggedIn = LocalUsers(users, step'.username, step'.password)
            /\ Cardinality(step'.loggedIn) <= 1
            /\ res' = IF step'.loggedIn # {}
                      THEN Redirect(<<"list", DEFAULT_LIST>>)
                      ELSE Redirect(<<"loginFail">>) ]_vars
  /\ [][ ( /\ step.op = "Register" /\ step.saved
           /\ step'.op = "Login" /\ step'.username = step.username )
         => (step'.loggedIn # {}) = (step'.password = step.password) ]_vars

\* C12 witness: a user registered with one password has just logged in, while
\* a Google user exists.
C12_Witness ==
  /\ step.op = "Login" /\ step.loggedIn # {}
  /\ \A i \in step.loggedIn : users[i].password = step.password
  /\ \E j \in DOMAIN users : users[j].userStrategy = "GoogleStrategy"

\* The positions of the users bound to an external identity.
GoogleUsers(coll, profile) ==
  {i \in DOMAIN coll : /\ coll[i].userStrategy = "GoogleStrategy"
                       /\ coll[i].username = profile}

\* C13: a Google login that has run to its end, having found its user or
\* having had the save of a new one executed, logs in a user bound to its
\* external identity, and afterwards exactly one user is bound to it.
C13_GoogleLoginProvisions ==
  [][ ( \/ step'.op = "GoogleSave"
        \/ step'.op = "GoogleReply" /\ res'.kind # "none" )
      => /\ step'.loggedIn # {}
         /\ step'.loggedIn = GoogleUsers(users', step'.username)
         /\ Cardinality(GoogleUsers(users', step'.username)) = 1 ]_vars

\* C14: no two user documents have the same username; no user document is
\* ever removed or changed; a registration with a username that is taken
\* creates no user, logs nobody in and is answered with /registerFail.
C14_UniqueUsernames ==
  /\ [](\A i, j \in DOMAIN users : users[i].username = users[j].username => i = j)
  /\ [][ \A i \in DOMAIN users : i \in DOMAIN users' /\ users'[i] = users[i] ]_vars
  /\ [][ ( /\ step'.op = "Register"
           /\ \E i \in DOMAIN users : users[i].username = step'.username )
         => ( /\ users' = users
              /\ step'.loggedIn = {}
              /\ res' = Redirect(<<"registerFail">>) ) ]_vars

\* C14 witness: a registration with the username of a Google user has just
\* been answered with /registerFail.
C14_Witness ==
  /\ step.op = "Register" /\ ~step.saved
  /\ res = Redirect(<<"registerFail">>)
  /\ \E i \in DOMAIN users : /\ users[i].username = step.username
                             /\ users[i].userStrategy = "GoogleStrategy"

\* C15: every request to view a list, to post to a list, to mark a task done
\* or to DELETE a list is answered: the handler sends a page, a redirect or
\* an error, also when its store call fails.
C15_EveryRequestAnswered ==
  [][ step'.op \in {"ListGet", "ListPost", "DonePost", "ListDelete"}
      => res'.kind \notin {"none", "unhandled"} ]_vars

\* The request just handled is a delete-list for a list other than the
\* default list, sent with a session where sessions exist.
DeleteListRequest(st) ==
  /\ st.op = "ListPost" /\ st.method = "delete"
  /\ Capitalize(st.raw) # DEFAULT_LIST
  /\ variant = "auth" => st.user # NoUser

\* C16: a delete-list for a list other than the default list is answered with
\* its redirect and leaves no task in the scope of that list and owner; when
\* the scope held no task the store is unchanged; a view of that list by that
\* owner right after it is empty.
C16_DeleteListEmptiesScope ==
  /\ [][ DeleteListRequest(step')
         => LET scope(store) ==
                  {i \in DOMAIN store :
                     InScope(store[i], Capitalize(step'.raw), step'.user)}
            IN  /\ res'.kind = "redirect"
                /\ scope(tasks') = {}
                /\ scope(tasks) = {} => tasks' = tasks ]_vars
  /\ [][ ( /\ DeleteListRequest(step) /\ res.kind = "redirect"
           /\ step'.op = "ListGet" /\ step'.raw = step.raw
           /\ step'.user = step.user )
         => (res'.kind = "render" /\ res'.tasks = <<>>) ]_vars

\* C16 witness: a delete-list of one user has removed a task while a task of
\* another user in the list of the same name is still stored.
C16_Witness ==
  /\ DeleteListRequest(step) /\ res.kind = "redirect"
  /\ nextId = MaxTasks /\ Cardinality(DOMAIN tasks) < nextId
  /\ \E i \in DOMAIN tasks :
       /\ tasks[i].listName = Capitalize(step.raw)
       /\ variant = "auth" /\ tasks[i].userId # step.user

\* The name under which GET /list/:listName shows a list: the default list
\* for an empty or missing name (line 620), capitalized by renderList (line
\* 424).
NormalizeListName(raw) ==
  Capitalize(IF raw # <<>> THEN raw ELSE DEFAULT_LIST)

\* A name is a capital followed by small letters.
IsNormalized(name) ==
  /\ name # <<>>
  /\ IsIn(name[1], Capitals)
  /\ \A k \in 2..Len(name) : IsIn(name[k], Letters)

\* C17: the normalized name of every input is a capital followed by small
\* letters, is Personal for the empty name, and is its own normalized name;
\* and the handlers use it: every page shown, every prune in flight and every
\* task stored carries a normalized list name.
C17_NormalizedNamesEverywhere ==
  /\ \A raw \in RawNames \cup {<<>>} :
       /\ IsNormalized(NormalizeListName(raw))
       /\ Len(NormalizeListName(raw)) = Len(IF raw = <<>> THEN DEFAULT_LIST ELSE raw)
       /\ \A k \in DOMAIN raw :
            LowerChar[NormalizeListName(raw)[k]] = LowerChar[raw[k]]
       /\ raw = <<>> => NormalizeListName(raw) = DEFAULT_LIST
       /\ NormalizeListName(NormalizeListName(raw)) = NormalizeListName(raw)
  /\ res.kind = "render" => IsNormalized(res.listName)
  /\ \A call \in BagToSet(pending) : IsNormalized(call.listName)
  /\ \A i \in DOMAIN tasks : IsNormalized(tasks[i].listName)

\* C19: when a request to a list or to mark a task done is answered with its
\* redirect, the store call it issued is no longer in flight; a view of a list
\* by its owner right after the redirect of a prune shows no done task.
C19_WriteBeforeResponse ==
  /\ [][ (step'.op \in {"ListPost", "DonePost"} /\ res'.kind = "redirect")
         => BagCardinality(pending') <= BagCardinality(pending) ]_vars
  /\ [][ ( /\ step.op = "ListPost" /\ step.method = "prune"
           /\ res.kind = "redirect"
           /\ step'.op = "ListGet" /\ step'.raw = step.raw
           /\ step'.user = step.user /\ res'.kind = "render" )
         => \A k \in DOMAIN res'.tasks : ~res'.tasks[k].done ]_vars

\* C20: the handler of a request tries to send at most one response.
C20_AtMostOneResponse == sent <= 1

\* The step is the store's part of a prune or a delete-list: a delete-list or
\* prune request, or the execution of the deleteMany that a prune has issued.
PrunesOrDeletes(st) ==
  \/ st.op = "DeleteManyExec"
  \/ st.op = "ListPost" /\ st.method \in {"delete", "prune"}

\* The list that such a step names: the list of the call in flight, or the
\* list of the request, which the older servers take as it is written.
NamedList(st) ==
  IF st.op = "DeleteManyExec" THEN st.listName
  ELSE IF variant \in {"part0", "part1"} THEN st.raw
  ELSE Capitalize(st.raw)

\* C18: a prune or a delete-list naming a list leaves every task stored under
\* another list name in the store, unchanged.
C18_OtherListsUntouched ==
  [][ PrunesOrDeletes(step')
      => \A i \in DOMAIN tasks :
           tasks[i].listName # NamedList(step')
             => (i \in DOMAIN tasks' /\ tasks'[i] = tasks[i]) ]_vars

====
